---- MODULE Spec2Model ----
(***************************************************************************)
(* Model of pkg/controller/keycloakclient/keycloakclient_reconciler.go:    *)
(* KeycloakClientReconciler.Reconcile and ReconcileRoles, which turn the   *)
(* desired KeycloakClient (cr) and the observed ClientState (state) into   *)
(* an ordered list of cluster actions.                                     *)
(***************************************************************************)
EXTENDS Integers, Sequences, FiniteSets, TLC

VARIABLES
    crRoles,            \* cr.Spec.Roles: the desired roles, in list order
    stateRoles,         \* state.Roles: the roles observed in keycloak
    deletionTimestamp,  \* cr.DeletionTimestamp != nil
    stateClient,        \* state.Client != nil
    stateClientSecret,  \* state.ClientSecret != nil
    desired,            \* the DesiredClusterState of the last pass (action list)
    previous,           \* the DesiredClusterState of the pass before it
    passes              \* number of reconciliation passes run so far

vars == <<crRoles, stateRoles, deletionTimestamp, stateClient,
          stateClientSecret, desired, previous, passes>>

----------------------------------------------------------------------------
(* Bounds and input domains *)

MaxRoles == 2
MaxPasses == 2

RoleNames == {"a", "b", "c"}
RoleIDs == {"1", "2", "3"}

\* kc.RoleRepresentation, restricted to the two fields the reconciler reads
ZeroRole == [ID |-> "", Name |-> ""]

Range(s) == {s[k] : k \in 1..Len(s)}

SeqsUpTo(S, n) == UNION {[1..k -> S] : k \in 0..n}

UniqueNames(s) == \A j, k \in 1..Len(s) : s[j].Name = s[k].Name => j = k

UniqueIDs(s) ==
    \A j, k \in 1..Len(s) : (s[j].ID # "" /\ s[j].ID = s[k].ID) => j = k

\* cr.Spec.Roles is a +listType=map list keyed by name; the id is optional
DesiredRoleLists ==
    {s \in SeqsUpTo([ID : RoleIDs \cup {""}, Name : RoleNames], MaxRoles) :
        UniqueNames(s)}

\* state.Roles is what keycloak reports: ids assigned by keycloak, ids and
\* names unique within the client
ObservedRoleLists ==
    {s \in SeqsUpTo([ID : RoleIDs, Name : RoleNames], MaxRoles) :
        UniqueNames(s) /\ UniqueIDs(s)}

----------------------------------------------------------------------------
(* Actions (common.ClusterAction values) *)

Action(kind, role, oldRole, msgName) ==
    [kind |-> kind, Role |-> role, OldRole |-> oldRole, Msg |-> msgName]

pingKeycloak == Action("PingAction", ZeroRole, ZeroRole, "")

getDeletedClientState == Action("DeleteClientAction", ZeroRole, ZeroRole, "")

getCreatedClientState == Action("CreateClientAction", ZeroRole, ZeroRole, "")

getUpdatedClientState == Action("UpdateClientAction", ZeroRole, ZeroRole, "")

getCreatedClientSecretState ==
    Action("GenericCreateAction", ZeroRole, ZeroRole, "")

getUpdatedClientSecretState ==
    Action("GenericUpdateAction", ZeroRole, ZeroRole, "")

getCreatedClientRoleState(role) ==
    Action("CreateClientRoleAction", role, ZeroRole, role.Name)

getUpdatedClientRoleState(role, oldRole) ==
    Action("UpdateClientRoleAction", role, oldRole, oldRole.Name)

getDeletedClientRoleState(role) ==
    Action("DeleteClientRoleAction", role, ZeroRole, role.Name)

\* DesiredClusterState.AddAction appends to the list
AddAction(d, action) == Append(d, action)

RECURSIVE AddActions(_, _)
AddActions(d, as) ==
    IF as = <<>> THEN d ELSE AddActions(AddAction(d, Head(as)), Tail(as))

----------------------------------------------------------------------------
(* Matcher *)

\* slip: the id is ignored, roles match by name only
roleMatchesNameOnly(a, b) == a.Name = b.Name

roleMatches(a, b) ==
    IF a.ID # "" /\ b.ID # "" THEN a.ID = b.ID ELSE a.Name = b.Name

\* slip: the loop returns on its first element
hasMatchingRoleFirstOnly(roles, otherRole) ==
    Len(roles) > 0 /\ roleMatches(roles[1], otherRole)

hasMatchingRole(roles, otherRole) ==
    \E k \in 1..Len(roles) : roleMatches(roles[k], otherRole)

\* slip: missing else, every role is appended to d
roleDifferenceIntersectionNoElse(a, b) ==
    [d |-> a,
     i |-> SelectSeq(a, LAMBDA role : hasMatchingRole(b, role))]

\* returned roles are always from a; d = difference, i = intersection
roleDifferenceIntersection(a, b) ==
    [d |-> SelectSeq(a, LAMBDA role : ~hasMatchingRole(b, role)),
     i |-> SelectSeq(a, LAMBDA role : hasMatchingRole(b, role))]

----------------------------------------------------------------------------
(* ReconcileRoles *)

\* slip: the map is keyed by role.Name, so a lookup by id misses
existingRoleByName(roles, id) ==
    LET ks == {k \in 1..Len(roles) : roles[k].Name = id}
    IN IF ks = {} THEN ZeroRole
       ELSE roles[CHOOSE k \in ks : \A j \in ks : j <= k]

\* existingRoleByID[id]: the last role of state.Roles with that id, or the
\* zero value when the map has no such key
existingRoleByID(roles, id) ==
    LET ks == {k \in 1..Len(roles) : roles[k].ID = id}
    IN IF ks = {} THEN ZeroRole
       ELSE roles[CHOOSE k \in ks : \A j \in ks : j <= k]

\* slip: no rename is noted down
renamedRolesNone(rolesMatching, roles) == {}

\* slip: the new name is noted down instead of the old one
renamedRolesNewNames(rolesMatching, roles) ==
    {role.Name :
        role \in {r \in Range(rolesMatching) :
                    r.ID # "" /\ r.Name # existingRoleByID(roles, r.ID).Name}}

\* the names noted down by the first loop over rolesMatching
renamedRolesOldNames(rolesMatching, roles) ==
    {existingRoleByID(roles, role.ID).Name :
        role \in {r \in Range(rolesMatching) :
                    r.ID # "" /\ r.Name # existingRoleByID(roles, r.ID).Name}}

MapSeq(s, Op(_)) == [k \in 1..Len(s) |-> Op(s[k])]

\* slip: the deletions are emitted after the updates and creations
ReconcileRolesDeleteLast(sRoles, cRoles, d0) ==
    LET rolesDeleted == roleDifferenceIntersection(sRoles, cRoles).d
        rolesMatching == roleDifferenceIntersection(cRoles, sRoles).i
        renamed == renamedRolesOldNames(rolesMatching, sRoles)
        withID == SelectSeq(rolesMatching, LAMBDA role : role.ID # "")
        withoutID == SelectSeq(rolesMatching, LAMBDA role : role.ID = "")
        rolesNew == roleDifferenceIntersection(cRoles, sRoles).d
        d2 == AddActions(d0, MapSeq(withID,
                LAMBDA role : getUpdatedClientRoleState(role,
                                 existingRoleByID(sRoles, role.ID))))
        d3 == AddActions(d2, MapSeq(withoutID,
                LAMBDA role : IF role.Name \in renamed
                              THEN getCreatedClientRoleState(role)
                              ELSE getUpdatedClientRoleState(role, role)))
        d4 == AddActions(d3, MapSeq(rolesNew, getCreatedClientRoleState))
    IN AddActions(d4, MapSeq(rolesDeleted, getDeletedClientRoleState))

ReconcileRoles(sRoles, cRoles, d0) ==
    LET rolesDeleted == roleDifferenceIntersection(sRoles, cRoles).d
        rolesMatching == roleDifferenceIntersection(cRoles, sRoles).i
        renamed == renamedRolesOldNames(rolesMatching, sRoles)
        withID == SelectSeq(rolesMatching, LAMBDA role : role.ID # "")
        withoutID == SelectSeq(rolesMatching, LAMBDA role : role.ID = "")
        rolesNew == roleDifferenceIntersection(cRoles, sRoles).d
        d1 == AddActions(d0, MapSeq(rolesDeleted, getDeletedClientRoleState))
        d2 == AddActions(d1, MapSeq(withID,
                LAMBDA role : getUpdatedClientRoleState(role,
                                 existingRoleByID(sRoles, role.ID))))
        d3 == AddActions(d2, MapSeq(withoutID,
                LAMBDA role : IF role.Name \in renamed
                              THEN getCreatedClientRoleState(role)
                              ELSE getUpdatedClientRoleState(role, role)))
    IN AddActions(d3, MapSeq(rolesNew, getCreatedClientRoleState))

----------------------------------------------------------------------------
(* Reconcile *)

\* slip: the deletion branch does not return
ReconcileNoReturn(sClient, sSecret, sRoles, deleted, cRoles) ==
    LET d0 == AddAction(<<>>, pingKeycloak)
        d0d == IF deleted THEN AddAction(d0, getDeletedClientState) ELSE d0
        d1 == AddAction(d0d, IF ~sClient THEN getCreatedClientState
                             ELSE getUpdatedClientState)
        d2 == AddAction(d1, IF ~sSecret THEN getCreatedClientSecretState
                            ELSE getUpdatedClientSecretState)
    IN ReconcileRoles(sRoles, cRoles, d2)

\* slip: the secret is reconciled before the client
ReconcileSecretFirst(sClient, sSecret, sRoles, deleted, cRoles) ==
    LET d0 == AddAction(<<>>, pingKeycloak)
    IN IF deleted THEN AddAction(d0, getDeletedClientState)
       ELSE LET d1 == AddAction(d0, IF ~sSecret
                                    THEN getCreatedClientSecretState
                                    ELSE getUpdatedClientSecretState)
                d2 == AddAction(d1, IF ~sClient THEN getCreatedClientState
                                    ELSE getUpdatedClientState)
            IN ReconcileRoles(sRoles, cRoles, d2)

Reconcile(sClient, sSecret, sRoles, deleted, cRoles) ==
    LET d0 == AddAction(<<>>, pingKeycloak)
    IN IF deleted THEN AddAction(d0, getDeletedClientState)
       ELSE LET d1 == AddAction(d0, IF ~sClient THEN getCreatedClientState
                                    ELSE getUpdatedClientState)
                d2 == AddAction(d1, IF ~sSecret
                                    THEN getCreatedClientSecretState
                                    ELSE getUpdatedClientSecretState)
            IN ReconcileRoles(sRoles, cRoles, d2)

----------------------------------------------------------------------------
(* Specifications *)

\* Spec: passes of Reconcile over every client state
Init ==
    /\ crRoles \in DesiredRoleLists
    /\ stateRoles \in ObservedRoleLists
    /\ deletionTimestamp \in BOOLEAN
    /\ stateClient \in BOOLEAN
    /\ stateClientSecret \in BOOLEAN
    /\ desired = <<>>
    /\ previous = <<>>
    /\ passes = 0

DoReconcile ==
    /\ passes < MaxPasses
    /\ previous' = desired
    /\ desired' = Reconcile(stateClient, stateClientSecret, stateRoles,
                            deletionTimestamp, crRoles)
    /\ passes' = passes + 1
    /\ UNCHANGED <<crRoles, stateRoles, deletionTimestamp, stateClient,
                   stateClientSecret>>

Next == DoReconcile

Spec == Init /\ [][Next]_vars

\* SpecRoles: passes of ReconcileRoles alone, each on a fresh action list
InitRoles ==
    /\ crRoles \in DesiredRoleLists
    /\ stateRoles \in ObservedRoleLists
    /\ deletionTimestamp = FALSE
    /\ stateClient = TRUE
    /\ stateClientSecret = TRUE
    /\ desired = <<>>
    /\ previous = <<>>
    /\ passes = 0

DoReconcileRoles ==
    /\ passes < MaxPasses
    /\ previous' = desired
    /\ desired' = ReconcileRoles(stateRoles, crRoles, <<>>)
    /\ passes' = passes + 1
    /\ UNCHANGED <<crRoles, stateRoles, deletionTimestamp, stateClient,
                   stateClientSecret>>

NextRoles == DoReconcileRoles

SpecRoles == InitRoles /\ [][NextRoles]_vars

----------------------------------------------------------------------------
(* Vocabulary of the properties, stated independently of the reconciler *)

IsRoleAction(a) ==
    a.kind \in {"CreateClientRoleAction", "UpdateClientRoleAction",
                "DeleteClientRoleAction"}

IsCreateRole(a) == a.kind = "CreateClientRoleAction"

IsUpdateRole(a) == a.kind = "UpdateClientRoleAction"

IsDeleteRole(a) == a.kind = "DeleteClientRoleAction"

\* positions of the action list d whose action satisfies P
Positions(d, P(_)) == {k \in 1..Len(d) : P(d[k])}

Count(d, P(_)) == Cardinality(Positions(d, P))

\* the match rule: equal ids when both ids are non-empty, else equal names
Matches(x, y) ==
    \/ x.ID # "" /\ y.ID # "" /\ x.ID = y.ID
    \/ (x.ID = "" \/ y.ID = "") /\ x.Name = y.Name

MatchedBySome(x, roles) == \E y \in Range(roles) : Matches(x, y)

NamesOf(roles) == {r.Name : r \in Range(roles)}

----------------------------------------------------------------------------
(* Properties of Reconcile (specification Spec) *)

\* C2 - deletion short-circuit: when cr.DeletionTimestamp is set, the result
\* of Reconcile is exactly Ping followed by one DeleteClient action, whatever
\* the observed client, secret and roles and the desired roles are.
C2_DeletionShortCircuit ==
    (passes >= 1 /\ deletionTimestamp) =>
        /\ Len(desired) = 2
        /\ desired[1].kind = "PingAction"
        /\ desired[2].kind = "DeleteClientAction"

\* reached: a deleted client that still has observed and desired roles, an
\* observed client and an observed secret
C2_Witness ==
    /\ passes >= 1
    /\ deletionTimestamp
    /\ stateClient
    /\ stateClientSecret
    /\ Len(stateRoles) >= 2
    /\ Len(crRoles) >= 2
    /\ Len(desired) = 2

\* C8 - result layout: the first action is Ping and no later one is; without
\* the deletion marker Ping is followed by exactly one client action (create
\* iff no observed client, else update), then exactly one secret action
\* (create iff no observed secret, else update), then only role actions.
C8_ResultLayout ==
    passes >= 1 =>
        /\ Len(desired) >= 2
        /\ desired[1].kind = "PingAction"
        /\ \A k \in 2..Len(desired) : desired[k].kind # "PingAction"
        /\ ~deletionTimestamp =>
            /\ Len(desired) >= 3
            /\ desired[2].kind = (IF stateClient THEN "UpdateClientAction"
                                  ELSE "CreateClientAction")
            /\ desired[3].kind = (IF stateClientSecret
                                  THEN "GenericUpdateAction"
                                  ELSE "GenericCreateAction")
            /\ \A k \in 4..Len(desired) : IsRoleAction(desired[k])
            /\ \A k \in 1..3 : ~IsRoleAction(desired[k])

\* reached: a live client without observed client but with observed secret,
\* whose result carries role actions after the three leading actions
C8_Witness ==
    /\ passes >= 1
    /\ ~deletionTimestamp
    /\ ~stateClient
    /\ stateClientSecret
    /\ Len(desired) > 4
    /\ desired[2].kind = "CreateClientAction"
    /\ desired[3].kind = "GenericUpdateAction"

----------------------------------------------------------------------------
(* Properties of ReconcileRoles (specification SpecRoles) *)

\* the effect of one role action on a role collection (a sequence of roles):
\* DeleteRole removes the role with that id, UpdateRole whose previous carries
\* an id sets that role's name, a self-paired UpdateRole keeps the role with
\* that name, CreateRole adds a role with the given name
ApplyRoleAction(coll, a) ==
    IF IsDeleteRole(a)
    THEN SelectSeq(coll, LAMBDA r : r.ID # a.Role.ID)
    ELSE IF IsUpdateRole(a) /\ a.OldRole.ID # ""
    THEN [k \in 1..Len(coll) |->
            IF coll[k].ID = a.OldRole.ID
            THEN [coll[k] EXCEPT !.Name = a.Role.Name] ELSE coll[k]]
    ELSE IF IsCreateRole(a)
    THEN Append(coll, [ID |-> "", Name |-> a.Role.Name])
    ELSE coll

RECURSIVE ApplyRoleActions(_, _)
ApplyRoleActions(coll, d) ==
    IF d = <<>> THEN coll
    ELSE ApplyRoleActions(ApplyRoleAction(coll, Head(d)), Tail(d))

\* C1 - convergence: when names are unique within each collection, observed
\* ids are non-empty and non-empty ids are unique within each collection,
\* applying the emitted role actions in list order to the observed
\* collection yields exactly the desired role names.
C1_Convergence ==
    (/\ passes >= 1
     /\ UniqueNames(crRoles) /\ UniqueNames(stateRoles)
     /\ UniqueIDs(crRoles) /\ UniqueIDs(stateRoles)
     /\ \A o \in Range(stateRoles) : o.ID # "") =>
        NamesOf(ApplyRoleActions(stateRoles, desired)) = NamesOf(crRoles)

\* reached: one pass that deletes a role, renames another and creates a third
C1_Witness ==
    /\ passes >= 1
    /\ UniqueIDs(crRoles)
    /\ \E k \in 1..Len(desired) : IsDeleteRole(desired[k])
    /\ \E k \in 1..Len(desired) :
          /\ IsUpdateRole(desired[k])
          /\ desired[k].OldRole.ID # ""
          /\ desired[k].OldRole.Name # desired[k].Role.Name
    /\ \E k \in 1..Len(desired) : IsCreateRole(desired[k])
    /\ NamesOf(stateRoles) # NamesOf(crRoles)

\* the deletion-coverage half shared by the two readings of C3
DeletionCoverage ==
    \A o \in Range(stateRoles) :
        ~MatchedBySome(o, crRoles) =>
            /\ Count(desired, LAMBDA a : IsDeleteRole(a) /\ a.Role = o) = 1
            /\ \A k \in 1..Len(desired) :
                  (IsUpdateRole(desired[k]) \/ IsCreateRole(desired[k])) =>
                      (desired[k].Role # o /\ desired[k].OldRole # o)

DeletedNotUpdated(o) ==
    /\ \E k \in 1..Len(desired) :
          IsDeleteRole(desired[k]) /\ desired[k].Role = o
    /\ \A k \in 1..Len(desired) :
          IsUpdateRole(desired[k]) => desired[k].OldRole # o

\* C3 as stated: deletion coverage, and every observed role whose name equals
\* a desired role's name while their non-empty ids differ is deleted, not
\* updated.
C3_AsStated ==
    passes >= 1 =>
        /\ DeletionCoverage
        /\ \A o \in Range(stateRoles) : \A d \in Range(crRoles) :
              (o.Name = d.Name /\ o.ID # "" /\ d.ID # "" /\ o.ID # d.ID) =>
                  DeletedNotUpdated(o)

\* C3 (amended) - deletion coverage: every observed role that no desired role
\* matches produces exactly one DeleteRole carrying it and is referenced by
\* no Update or Create action; an observed role whose name equals a desired
\* role's name while their non-empty ids differ is deleted, not updated,
\* provided no desired role carries the observed role's id.
C3_DeletionCoverage ==
    passes >= 1 =>
        /\ DeletionCoverage
        /\ \A o \in Range(stateRoles) : \A d \in Range(crRoles) :
              (/\ o.Name = d.Name /\ o.ID # "" /\ d.ID # "" /\ o.ID # d.ID
               /\ \A d2 \in Range(crRoles) : d2.ID # o.ID) =>
                  DeletedNotUpdated(o)

\* reached: an observed role deleted although a desired role has its name
C3_Witness ==
    /\ passes >= 1
    /\ \E o \in Range(stateRoles) : \E d \in Range(crRoles) :
          /\ o.Name = d.Name /\ d.ID # "" /\ o.ID # d.ID
          /\ \A d2 \in Range(crRoles) : d2.ID # o.ID
          /\ \E k \in 1..Len(desired) :
                IsDeleteRole(desired[k]) /\ desired[k].Role = o

\* C4 - creation: every desired role that matches no observed role produces
\* exactly one CreateRole and no UpdateRole; so does every desired role whose
\* non-empty id equals no observed id, even when an observed role has its
\* name.
C4_Creation ==
    passes >= 1 =>
        \A d \in Range(crRoles) :
            (\/ ~MatchedBySome(d, stateRoles)
             \/ (d.ID # "" /\ \A o \in Range(stateRoles) :
                                 o.ID # "" /\ o.ID # d.ID)) =>
                /\ Count(desired, LAMBDA a : IsCreateRole(a) /\ a.Role = d) = 1
                /\ Count(desired, LAMBDA a : IsUpdateRole(a) /\ a.Role = d) = 0

\* reached: a created desired role with a foreign id and an observed namesake
C4_Witness ==
    /\ passes >= 1
    /\ \E d \in Range(crRoles) :
          /\ d.ID # ""
          /\ \A o \in Range(stateRoles) : o.ID # d.ID
          /\ \E o \in Range(stateRoles) : o.Name = d.Name
          /\ \E k \in 1..Len(desired) :
                IsCreateRole(desired[k]) /\ desired[k].Role = d

\* C5 - id-matched update: every matched desired role with a non-empty id
\* produces exactly one UpdateRole, whose previous is the observed role with
\* that id (also when the names differ), no CreateRole for the desired role
\* and no DeleteRole for that observed role.
C5_IdMatchedUpdate ==
    passes >= 1 =>
        \A d \in Range(crRoles) :
            (d.ID # "" /\ MatchedBySome(d, stateRoles)) =>
                \E o \in Range(stateRoles) :
                    /\ o.ID = d.ID
                    /\ Count(desired,
                             LAMBDA a : IsUpdateRole(a) /\ a.Role = d) = 1
                    /\ Count(desired, LAMBDA a : /\ IsUpdateRole(a)
                                                 /\ a.Role = d
                                                 /\ a.OldRole = o) = 1
                    /\ Count(desired,
                             LAMBDA a : IsCreateRole(a) /\ a.Role = d) = 0
                    /\ Count(desired,
                             LAMBDA a : IsDeleteRole(a) /\ a.Role = o) = 0

\* reached: a rename, i.e. an id-matched update whose two names differ
C5_Witness ==
    /\ passes >= 1
    /\ \E k \in 1..Len(desired) :
          /\ IsUpdateRole(desired[k])
          /\ desired[k].Role.ID # ""
          /\ desired[k].OldRole.ID = desired[k].Role.ID
          /\ desired[k].OldRole.Name # desired[k].Role.Name

\* the name of d is the old name of an observed role that an id-matched
\* desired role renames
VacatedByRename(d) ==
    \E d2 \in Range(crRoles) : \E o \in Range(stateRoles) :
        /\ d2.ID # "" /\ o.ID = d2.ID
        /\ o.Name = d.Name
        /\ d2.Name # o.Name

\* C6 - rename plus name reuse: a desired role with an empty id that matches
\* an observed role by name produces one CreateRole and no UpdateRole exactly
\* when its name is vacated by a rename of the same pass; otherwise it
\* produces exactly one self-paired UpdateRole and no CreateRole.
C6_RenameNameReuse ==
    passes >= 1 =>
        \A d \in Range(crRoles) :
            (d.ID = "" /\ MatchedBySome(d, stateRoles)) =>
                LET creates ==
                        Count(desired, LAMBDA a : IsCreateRole(a) /\ a.Role = d)
                    updates ==
                        Count(desired, LAMBDA a : IsUpdateRole(a) /\ a.Role = d)
                    selfPaired ==
                        Count(desired, LAMBDA a : /\ IsUpdateRole(a)
                                                  /\ a.Role = d
                                                  /\ a.OldRole = d)
                IN IF VacatedByRename(d)
                   THEN creates = 1 /\ updates = 0
                   ELSE creates = 0 /\ updates = 1 /\ selfPaired = 1

\* reached: a rename whose old name is reused by a desired role without id
C6_Witness ==
    /\ passes >= 1
    /\ \E d \in Range(crRoles) :
          /\ d.ID = ""
          /\ VacatedByRename(d)
          /\ \E k \in 1..Len(desired) :
                IsCreateRole(desired[k]) /\ desired[k].Role = d

\* C7 - no-op idempotence: when desired and observed hold the same (id, name)
\* pairs, the pass emits one UpdateRole per role and no CreateRole or
\* DeleteRole, and a second pass over the same inputs emits the same list.
C7_NoOpIdempotence ==
    (/\ passes >= 1
     /\ Range(crRoles) = Range(stateRoles)
     /\ \A d \in Range(crRoles) : d.ID # "") =>
        /\ Len(desired) = Len(crRoles)
        /\ \A k \in 1..Len(desired) : IsUpdateRole(desired[k])
        /\ \A d \in Range(crRoles) :
              Count(desired, LAMBDA a : IsUpdateRole(a) /\ a.Role = d) = 1
        /\ passes >= 2 => previous = desired

\* reached: a second pass over two roles listed in different orders
C7_Witness ==
    /\ passes >= 2
    /\ Range(crRoles) = Range(stateRoles)
    /\ Len(crRoles) >= 2
    /\ crRoles # stateRoles
    /\ previous = desired
    /\ Len(desired) = Len(crRoles)

\* C10 - exactly-one classification: each desired role yields exactly one
\* role action (a CreateRole or an UpdateRole), each observed role is the
\* target of at most one DeleteRole, and the number of role actions is the
\* number of desired roles plus the number of unmatched observed roles.
C10_ExactlyOne ==
    passes >= 1 =>
        /\ \A d \in Range(crRoles) :
              Count(desired, LAMBDA a : /\ IsCreateRole(a) \/ IsUpdateRole(a)
                                        /\ a.Role = d) = 1
        /\ \A o \in Range(stateRoles) :
              Count(desired, LAMBDA a : IsDeleteRole(a) /\ a.Role = o) <= 1
        /\ \A k \in 1..Len(desired) : IsRoleAction(desired[k])
        /\ Len(desired) =
              Len(crRoles) + Cardinality({k \in 1..Len(stateRoles) :
                                ~MatchedBySome(stateRoles[k], crRoles)})

\* reached: a pass with a delete, an update and a create
C10_Witness ==
    /\ passes >= 1
    /\ Len(crRoles) >= 2
    /\ Len(desired) > Len(crRoles)
    /\ \E k \in 1..Len(desired) : IsUpdateRole(desired[k])
    /\ \E k \in 1..Len(desired) : IsCreateRole(desired[k])

\* the role names an action touches: the name a DeleteRole deletes, the
\* previous and new names of an UpdateRole, the name a CreateRole creates
TouchedNames(a) ==
    IF IsUpdateRole(a) THEN {a.OldRole.Name, a.Role.Name} ELSE {a.Role.Name}

DisjointNames(d) ==
    \A j, k \in 1..Len(d) :
        j # k => TouchedNames(d[j]) \cap TouchedNames(d[k]) = {}

Permuted(d, p) == [k \in 1..Len(d) |-> d[p[k]]]

OrderIndependent(coll, d) ==
    \A p \in Permutations(1..Len(d)) :
        Range(ApplyRoleActions(coll, Permuted(d, p))) =
            Range(ApplyRoleActions(coll, d))

\* C9 as stated: no two role actions of one result touch the same role name,
\* so applying them in any permutation gives the same final collection.
C9_AsStated ==
    passes >= 1 =>
        /\ DisjointNames(desired)
        /\ OrderIndependent(stateRoles, desired)

\* C9 (amended) - role actions of one result may touch the same name (a
\* DeleteRole and the CreateRole or UpdateRole that takes over its name, a
\* rename and the CreateRole that reuses the old name); what holds is that
\* they act on distinct roles and that deletions come first: no two
\* DeleteRole actions carry the same observed role, no two Create/Update
\* actions carry the same desired role or the same new name, no deleted role
\* is the previous of an UpdateRole, and every DeleteRole precedes every
\* UpdateRole and CreateRole of the list; with non-empty ids unique within
\* each collection, applying the actions by id (as in C1) in any permutation
\* gives the same final collection.
C9_DistinctRoles ==
    passes >= 1 =>
        /\ (UniqueIDs(crRoles) /\ UniqueIDs(stateRoles)) =>
              OrderIndependent(stateRoles, desired)
        /\ \A j, k \in 1..Len(desired) :
            j # k =>
                LET x == desired[j]
                    y == desired[k]
                IN /\ (IsDeleteRole(x) /\ IsDeleteRole(y)) =>
                          (x.Role # y.Role /\ x.Role.Name # y.Role.Name)
                   /\ (~IsDeleteRole(x) /\ ~IsDeleteRole(y)) =>
                          (x.Role # y.Role /\ x.Role.Name # y.Role.Name)
                   /\ (IsDeleteRole(x) /\ IsUpdateRole(y)) =>
                          x.Role # y.OldRole
                   /\ (IsDeleteRole(x) /\ ~IsDeleteRole(y)) => j < k

\* reached: a DeleteRole followed by a CreateRole of the same name, next to
\* an id-matched UpdateRole
C9_Witness ==
    /\ passes >= 1
    /\ \E j, k \in 1..Len(desired) :
          /\ j < k
          /\ IsDeleteRole(desired[j])
          /\ IsCreateRole(desired[k])
          /\ desired[j].Role.Name = desired[k].Role.Name
    /\ \E k \in 1..Len(desired) :
          IsUpdateRole(desired[k]) /\ desired[k].OldRole.ID # ""

====
